---- MODULE Spec2Model ----
(***************************************************************************)
(* Canvas FastAPI backend: registration, token verification, password      *)
(* change, image generation, the image-save pipeline (decode -> upload ->  *)
(* commit) and the image listing (query -> signed URLs), as a state        *)
(* machine over the relational tables, the blob bucket and the in-flight   *)
(* requests.                                                               *)
(*                                                                         *)
(* The relational store is the PostgreSQL database the entities are        *)
(* written for (sqlalchemy.dialects.postgresql UUID columns): UNIQUE and   *)
(* FOREIGN KEY constraints are enforced when a transaction commits.        *)
(* uuid.uuid4() returns a value that occurs nowhere in the system; UUIDs   *)
(* are opaque, so the least unused number stands for it.                   *)
(* Every call that leaves the process (upload, commit, refresh) may fail.  *)
(*                                                                         *)
(* Spec is the storage side (image save, registration, password change);   *)
(* SpecAuth is the identity side (login, the endpoints that resolve the    *)
(* user of a token, password change); SpecSave and SpecToken run the save  *)
(* pipeline and the token codec alone over every input of their bounds;    *)
(* SpecList runs listings over a stored set of images, SpecApi runs every  *)
(* endpoint one request after the other, and SpecScope runs requests under *)
(* the fairness of the server's scheduling.                                *)
(***************************************************************************)
EXTENDS Integers, Sequences, FiniteSets, TLC

\* ------------------------------------------------------------------ bounds
\* Requests admitted in one behaviour.
MaxRequests == 2
\* Longest image_base64 string enumerated by SpecSave.
MaxPayloadLen == 4
\* Token lifetimes the clock runs through in one behaviour.
MaxTicks == 1
\* Tokens handed out by login in one behaviour.
MaxTokens == 1
\* Longest expires_delta, in clock units, the round trip is computed for.
MaxDelta == 4
\* Images one user has stored before the listings start.
MaxStored == 2

\* ------------------------------------------------------------- input sets
Reqs == {1, 2}
\* RegisterUserRequest bodies: every pair of them collides on the username,
\* on the email, on both or on neither.
RegisterBodies ==
    {[username |-> "alice", email |-> "a@x.io", password |-> "pw1"],
     [username |-> "alice", email |-> "b@x.io", password |-> "pw2"],
     [username |-> "bob", email |-> "a@x.io", password |-> "pw1"],
     [username |-> "bob", email |-> "b@x.io", password |-> "pw2"]}
DataChars == {"A", "B"}
B64Chars == DataChars \cup {"=", "!"}

\* ------------------------------------------------------- base64.b64decode
\* binascii.a2b_base64 in its default, non-strict mode: characters outside
\* the alphabet are skipped, '=' before two data characters of a quad is
\* skipped, a complete pad sequence ends the parse (what follows is
\* ignored), and the input is rejected only when the data characters do not
\* end on a quad boundary.  The decoded bytes are kept as the data
\* characters they were decoded from.
RECURSIVE a2b_base64(_, _, _, _, _)
a2b_base64(s, i, quad_pos, pads, out) ==
    IF i > Len(s)
    THEN IF quad_pos # 0
         THEN [ok |-> FALSE, bytes |-> <<>>]
         ELSE [ok |-> TRUE, bytes |-> out]
    ELSE IF s[i] = "="
         THEN IF quad_pos >= 2 /\ quad_pos + pads + 1 >= 4
              THEN [ok |-> TRUE, bytes |-> out]
              ELSE a2b_base64(s, i + 1, quad_pos,
                              IF quad_pos >= 2 THEN pads + 1 ELSE pads, out)
         ELSE IF s[i] \notin DataChars
              THEN a2b_base64(s, i + 1, quad_pos, pads, out)
              ELSE a2b_base64(s, i + 1, (quad_pos + 1) % 4, 0,
                              Append(out, s[i]))

b64decode(s) == a2b_base64(s, 1, 0, 0, <<>>)

\* RFC 4648 base64 text: quads of alphabet characters, the last quad
\* optionally ending in "=" or "==".
WellFormedB64(s) ==
    /\ Len(s) % 4 = 0
    /\ \A i \in 1..Len(s) :
          \/ s[i] \in DataChars
          \/ /\ s[i] = "="
             /\ i >= Len(s) - 1
             /\ \A j \in i..Len(s) : s[j] = "="

\* ------------------------------------------------------ Credential Hasher
\* bcrypt digest of a password under a salt.
bcrypt(salt, password) == <<"bcrypt", salt, password>>

\* bcrypt_context.hash: the stored string carries the salt and the digest.
get_password_hash(password, salt) ==
    [salt |-> salt, digest |-> bcrypt(salt, password)]

\* bcrypt_context.verify: re-hash the candidate under the stored salt.
verify_password(plain_password, hashed_password) ==
    bcrypt(hashed_password.salt, plain_password) = hashed_password.digest

\* ------------------------------------------------------------ Token Codec
SECRET_KEY == "secret"
ACCESS_TOKEN_EXPIRE_MINUTES == 30

\* The clock counts half seconds: datetime.now() has sub-second
\* resolution, the "exp" claim of a JWT has not.
UnitsPerSecond == 2

\* timedelta(minutes=m) in clock units.
timedelta(minutes) == minutes * 60 * UnitsPerSecond

\* calendar.timegm(dt.utctimetuple()): the instant in whole seconds, the
\* fraction dropped.  jwt.encode stores a datetime "exp" this way.
timegm(t) == t \div UnitsPerSecond

\* The "user_id" claim of a payload: absent, or a string that is empty,
\* not a UUID, or str(uuid).
NoClaim == [kind |-> "none", n |-> 0]
EmptyClaim == [kind |-> "empty", n |-> 0]
BadClaim == [kind |-> "bad", n |-> 0]
str(user_id) == [kind |-> "uuid", n |-> user_id]

\* TokenData.get_uuid: None for a falsy user_id, UUID(user_id) otherwise,
\* which raises ValueError on a string that is no UUID.
get_uuid(claim) ==
    CASE claim.kind \in {"none", "empty"} -> [raised |-> FALSE, uuid |-> 0]
      [] claim.kind = "bad" -> [raised |-> TRUE, uuid |-> 0]
      [] OTHER -> [raised |-> FALSE, uuid |-> claim.n]

\* jwt.encode of the claims under a key.
jwt_encode(sub, claim, exp, key) ==
    [jwt |-> TRUE, sub |-> sub, user_id |-> claim, exp |-> exp, key |-> key]

\* A bearer string that is no JWT at all.
GarbageToken == [jwt |-> FALSE, sub |-> "", user_id |-> NoClaim, exp |-> 0,
                 key |-> "other"]

\* Variant: the token is signed under a key verify_token does not use.
create_access_token_other_key(email, user_id, expires_delta, t) ==
    jwt_encode(email, str(user_id), timegm(t + expires_delta), "other")

\* Variant: the payload names the user by "sub" alone.
create_access_token_sub_only(email, user_id, expires_delta, t) ==
    jwt_encode(email, NoClaim, timegm(t + expires_delta), SECRET_KEY)

\* create_access_token at time t: "exp" is now + expires_delta, encoded
\* by jwt.encode in whole seconds.
create_access_token(email, user_id, expires_delta, t) ==
    jwt_encode(email, str(user_id), timegm(t + expires_delta), SECRET_KEY)

NoHeaders == {}
BearerHeaders == {<<"WWW-Authenticate", "Bearer">>}

\* The credentials_exception of verify_token.
credentials_exception ==
    [ok |-> FALSE, user_id |-> NoClaim, raised |-> "HTTPException",
     status |-> 401, detail |-> "Could not validate credentials",
     headers |-> BearerHeaders]

\* Variant: "exp" is not looked at.
verify_token_unexpiring(token, t) ==
    IF ~token.jwt \/ token.key # SECRET_KEY \/ token.user_id.kind = "none"
    THEN credentials_exception
    ELSE [ok |-> TRUE, user_id |-> token.user_id, raised |-> "",
          status |-> 0, detail |-> "", headers |-> NoHeaders]

\* verify_token at time t: jwt.decode raises a PyJWTError for a string
\* that is no JWT, for a signature made under another key and for an
\* "exp" that is not after the current second; that and a payload without
\* user_id both raise credentials_exception.
verify_token(token, t) ==
    IF ~token.jwt \/ token.key # SECRET_KEY \/ token.exp <= timegm(t)
    THEN credentials_exception
    ELSE IF token.user_id.kind = "none"
         THEN credentials_exception
         ELSE [ok |-> TRUE, user_id |-> token.user_id, raised |-> "",
               status |-> 0, detail |-> "", headers |-> NoHeaders]

\* ----------------------------------------------------------------- state
VARIABLES
    users,       \* rows of table "users"
    images,      \* rows of table "images"
    blobs,       \* objects of the bucket: [path, data, content_type]
    req,         \* the in-flight request of each slot
    now,         \* the clock
    served,      \* requests admitted so far
    gcs,         \* outcome of the module-level storage client setup
    issued       \* the tokens login has returned, as their holders know them

vars == <<users, images, blobs, req, now, served, gcs, issued>>

NoBlobName == [user_id |-> 0, rand |-> 0]

\* No token: a request without one, a response that carries none.
NoToken == [jwt |-> FALSE, sub |-> "", user_id |-> NoClaim, exp |-> 0,
            key |-> ""]

NoBody == [username |-> "", password |-> "", new_password |-> "",
           new_password_confirm |-> ""]

\* A request slot: the operation and its position, the bearer token and
\* the body it came with, what it has staged and called on its session,
\* the exception its service function raised, and the response; for a
\* listing, the rows its query returned, the signed-URL tasks that have
\* completed (in the order they completed) and the entries it returns;
\* the values formatted into the detail, the text of the provider's
\* exception, the body of a response that is a string, and the session
\* get_db gave it (0: none).
IdleReq ==
    [op |-> "none", pc |-> "idle", user_id |-> 0, payload |-> <<>>,
     prompt |-> "", image_bytes |-> <<>>, blob_name |-> NoBlobName,
     obj |-> {}, pending |-> {}, decode |-> "pending",
     upload |-> "pending", commit |-> "pending", refresh |-> "pending",
     error |-> "", rollbacks |-> 0, status |-> 0, detail |-> "",
     bearer |-> NoToken, body |-> NoBody, adds |-> 0, commits |-> 0,
     raised |-> "", headers |-> NoHeaders, access_token |-> NoToken,
     user_images |-> <<>>, url_tasks |-> <<>>,
     image_data_with_urls |-> <<>>, detail_args |-> <<>>, cause |-> "",
     content |-> <<>>, db |-> 0]

\* The user ids named by the tokens in circulation: the user of
\* InitialUsers and a user that has no row.
TokenUserIds == {1, 2}

\* Every UUID held by a token, a row, an object path or a request in
\* flight.
used_uuids ==
    TokenUserIds \cup {u.id : u \in users} \cup {i.id : i \in images}
    \cup {i.user_id : i \in images}
    \cup {b.path.rand : b \in blobs} \cup {b.path.user_id : b \in blobs}
    \cup {req[r].user_id : r \in Reqs}
    \cup {req[r].blob_name.rand : r \in Reqs}
    \cup UNION {{x.id : x \in {y \in req[r].obj : req[r].op = "register"}}
                : r \in Reqs}

\* uuid.uuid4()
uuid4 == CHOOSE n \in 1..(Cardinality(used_uuids) + 1) :
            /\ n \notin used_uuids
            /\ \A m \in 1..(n - 1) : m \in used_uuids

\* Every salt held by a stored or a staged password hash.
used_salts ==
    {u.hashed_password.salt : u \in users}
    \cup UNION {{x.hashed_password.salt :
                    x \in {y \in req[r].obj :
                             req[r].op \in {"register", "password"}}}
                : r \in Reqs}

\* bcrypt's random salt: a value no other hash carries.
gensalt == CHOOSE n \in 1..(Cardinality(used_salts) + 1) :
              /\ n \notin used_salts
              /\ \A m \in 1..(n - 1) : m \in used_salts

\* A new request is served in the lowest free slot.
Admit(r) ==
    /\ req[r].pc = "idle"
    /\ \A q \in Reqs : q < r => req[q].pc # "idle"
    /\ served < MaxRequests

\* The response leaves the handler: the return value, or an HTTPException
\* raised by the service function.
Respond(rq, status, detail) ==
    [rq EXCEPT !.pc = "done", !.status = status, !.detail = detail,
               !.raised = IF status >= 400 THEN "HTTPException" ELSE ""]

\* The service function raised exc and the layers above it (controller,
\* framework) turned that into the response.
RespondRaised(rq, exc, status, detail) ==
    [Respond(rq, status, detail) EXCEPT !.error = exc, !.raised = exc]

\* The CurrentUser dependency failed: verify_token's exception is the
\* response.
Unauthorized(rq, td) ==
    [Respond(rq, td.status, td.detail) EXCEPT !.headers = td.headers]

\* The sessions that are open.
open_sessions == {req[r].db : r \in Reqs} \ {0}

\* Variant: a session that is open is handed out again.
SessionLocal_shared ==
    IF open_sessions = {} THEN 1 ELSE CHOOSE n \in open_sessions : TRUE

\* SessionLocal(): a new Session object, none of those that are open.
SessionLocal == CHOOSE n \in 1..(Cardinality(open_sessions) + 1) :
                   /\ n \notin open_sessions
                   /\ \A m \in 1..(n - 1) : m \in open_sessions

\* get_db up to its yield.  The endpoints name their dependencies in the
\* order current_user, db: when the CurrentUser dependency raised, get_db
\* is never entered and rq is the response already.
get_db(rq, session) ==
    IF rq.pc = "done" /\ rq.detail = credentials_exception.detail
    THEN rq
    ELSE [rq EXCEPT !.db = session]

\* session.rollback(): what was staged and not committed is discarded.
rollback(rq) == [rq EXCEPT !.pending = {}, !.rollbacks = @ + 1]

\* User(id=uuid4(), username=..., email=..., hashed_password=...)
new_user(id, username, email, password, salt) ==
    [id |-> id, username |-> username, email |-> email,
     hashed_password |-> get_password_hash(password, salt)]

\* The database a process starts on: empty, or holding a user registered
\* by an earlier process.
InitialUsers == {{}, {new_user(1, "alice", "a@x.io", "pw1", 1)}}

Init ==
    /\ users \in InitialUsers
    /\ images = {}
    /\ blobs = {}
    /\ req = [r \in Reqs |-> IdleReq]
    /\ now = 0
    /\ served = 0
    /\ gcs \in {"ok", "not_configured", "no_project"}
    /\ issued = {}


\* ------------------------------------------------------- request inputs
Claims == {NoClaim, EmptyClaim, BadClaim} \cup {str(n) : n \in TokenUserIds}
\* The "exp" of a token made at time 0 with the login lifetime.
FirstExpiry == timegm(timedelta(ACCESS_TOKEN_EXPIRE_MINUTES))
\* Bearer strings a client may present: no JWT at all, claims signed
\* under another key, or claims signed under SECRET_KEY; each expires one
\* token lifetime after time 0.
PresentedTokens ==
    {GarbageToken, jwt_encode("a@x.io", str(1), FirstExpiry, "other")}
    \cup {jwt_encode("a@x.io", c, FirstExpiry, SECRET_KEY) : c \in Claims}
\* What a client may send as its bearer token: one of those, or a token
\* login returned.
BearerTokens == PresentedTokens \cup {g.access_token : g \in issued}
\* PasswordChange bodies: a change to the other password, a change to the
\* same password, and a confirmation that does not match.
PasswordBodies ==
    {[current_password |-> "pw1", new_password |-> "pw2",
      new_password_confirm |-> "pw2"],
     [current_password |-> "pw2", new_password |-> "pw1",
      new_password_confirm |-> "pw1"],
     [current_password |-> "pw1", new_password |-> "pw1",
      new_password_confirm |-> "pw1"],
     [current_password |-> "pw1", new_password |-> "pw2",
      new_password_confirm |-> "pw1"]}
\* SaveImageRequest bodies of the full system: well-formed base64 with a
\* prompt, a truncated string, and a string carrying a character outside
\* the alphabet, without a prompt.
SaveBodies ==
    {[image_base64 |-> <<"A", "A", "A", "A">>, prompt |-> "a cat"],
     [image_base64 |-> <<"A">>, prompt |-> "a cat"],
     [image_base64 |-> <<"A", "!", "A", "A", "A">>, prompt |-> ""]}

\* ------------------------------------------------- POST /image/save
\* Variant: the path is derived from the owner alone.
blob_name_by_owner(user_id, rand) == [user_id |-> user_id, rand |-> 0]

\* The blob path f"user_images/{user_id}/{uuid.uuid4()}.png".
blob_name_of(user_id, rand) == [user_id |-> user_id, rand |-> rand]

\* Image(user_id=..., file_path=..., prompt=...): id and created_at are
\* filled in when the row is inserted.
new_image(user_id, file_path, prompt) ==
    [user_id |-> user_id, file_path |-> file_path, prompt |-> prompt]

\* Variant: the decode error is caught and the upload goes ahead.
save_user_image_begin_undecoded(rq, user_id, image_base64, prompt, config, rand) ==
    LET dec == b64decode(image_base64)
        r0 == [rq EXCEPT !.user_id = user_id, !.payload = image_base64,
                         !.prompt = prompt]
    IN  IF config # "ok"
        THEN Respond(r0, 500, "Server configuration error")
        ELSE [r0 EXCEPT !.decode = IF dec.ok THEN "ok" ELSE "error",
                        !.image_bytes = dec.bytes,
                        !.blob_name = blob_name_of(user_id, rand),
                        !.pc = "upload"]

\* save_user_image up to its first suspension: the configuration checks,
\* the decode, the path derivation; then the upload is awaited.
save_user_image_begin(rq, user_id, image_base64, prompt, config, rand) ==
    LET dec == b64decode(image_base64)
        r0 == [rq EXCEPT !.user_id = user_id, !.payload = image_base64,
                         !.prompt = prompt]
    IN  IF config = "not_configured"
        THEN Respond(r0, 500,
                     "Server configuration error: Image storage is not set up correctly.")
        ELSE IF config = "no_project"
        THEN Respond(r0, 500,
                     "Server configuration error: Image storage project ID missing.")
        ELSE IF ~dec.ok
        THEN Respond([r0 EXCEPT !.decode = "error",
                                !.error = "binascii.Error"],
                     400, "Invalid image data format.")
        ELSE [r0 EXCEPT !.decode = "ok", !.image_bytes = dec.bytes,
                        !.blob_name = blob_name_of(user_id, rand),
                        !.pc = "upload"]

\* Variant: the handler reads the claims of the token itself, whatever
\* the CurrentUser dependency made of it.
save_start_unguarded(rq, token, payload, prompt, t, config, rand) ==
    LET uid == get_uuid(token.user_id)
        r0 == [rq EXCEPT !.op = "save", !.bearer = token]
    IN  IF token.user_id.kind \in {"none", "empty"}
        THEN Respond(r0, 401, "Authentication required")
        ELSE IF uid.raised
        THEN RespondRaised(r0, "ValueError", 500, "Internal Server Error")
        ELSE save_user_image_begin(r0, uid.uuid, payload, prompt, config,
                                   rand)

\* save_generated_image: the CurrentUser dependency and the controller's
\* checks, then save_user_image.
save_start(rq, token, payload, prompt, t, config, rand) ==
    LET td == verify_token(token, t)
        uid == get_uuid(td.user_id)
        r0 == [rq EXCEPT !.op = "save",
                         !.bearer = token]
    IN  IF ~td.ok
        THEN Unauthorized(r0, td)
        ELSE IF td.user_id.kind = "empty"
        THEN Respond(r0, 401, "Authentication required")
        ELSE IF uid.raised
        THEN RespondRaised(r0, "ValueError", 500, "Internal Server Error")
        ELSE save_user_image_begin(r0, uid.uuid, payload, prompt, config,
                                   rand)

SaveRequest(r, token, payload, prompt) ==
    /\ Admit(r)
    /\ req' = [req EXCEPT ![r] =
                 get_db(save_start(req[r], token, payload, prompt, now, gcs,
                                   uuid4), SessionLocal)]
    /\ served' = served + 1
    /\ UNCHANGED <<users, images, blobs, now, gcs, issued>>

\* blob.upload_from_string: the object is written under the path,
\* replacing whatever was stored there.
upload_from_string(bucket, path, data) ==
    {b \in bucket : b.path # path} \cup
    {[path |-> path, data |-> data, content_type |-> "image/png"]}

\* Variant: an upload error is logged and the save carries on.
after_upload_swallowed(rq, outcome) ==
    LET db_image == new_image(rq.user_id, rq.blob_name, rq.prompt)
    IN  [rq EXCEPT !.upload = "ok", !.pc = "commit",
                   !.obj = {db_image}, !.pending = {db_image}]

\* Variant: the handlers of an upload error do not roll back.
after_upload_no_rollback(rq, outcome) ==
    LET db_image == new_image(rq.user_id, rq.blob_name, rq.prompt)
    IN  IF outcome = "ok"
        THEN [rq EXCEPT !.upload = "ok", !.pc = "commit",
                        !.obj = {db_image}, !.pending = {db_image}]
        ELSE Respond([rq EXCEPT !.upload = "error", !.error = outcome],
                     500, "Error interacting with cloud storage.")

\* What save_user_image does when the awaited upload returns or raises.
after_upload(rq, outcome) ==
    LET db_image == new_image(rq.user_id, rq.blob_name, rq.prompt)
    IN  CASE outcome = "ok" ->
               [rq EXCEPT !.upload = "ok", !.pc = "commit",
                          !.obj = {db_image}, !.pending = {db_image}]
          [] outcome = "GoogleAPIError" ->
               Respond(rollback([rq EXCEPT !.upload = "error",
                                           !.error = outcome]),
                       500, "Error interacting with cloud storage.")
          [] OTHER ->
               Respond(rollback([rq EXCEPT !.upload = "error",
                                           !.error = outcome]),
                       500,
                       "An unexpected error occurred while saving the image.")

SaveUpload(r, outcome) ==
    /\ req[r].op = "save"
    /\ req[r].pc = "upload"
    /\ blobs' = IF outcome = "ok"
                THEN upload_from_string(blobs, req[r].blob_name,
                                        req[r].image_bytes)
                ELSE blobs
    /\ req' = [req EXCEPT ![r] = after_upload(req[r], outcome)]
    /\ UNCHANGED <<users, images, now, served, gcs, issued>>

\* Constraints of table "images" checked when the INSERT is flushed:
\* primary key, UNIQUE file_path, FOREIGN KEY user_id -> users.id.
image_insert_ok(row, image_rows, user_rows) ==
    /\ \A i \in image_rows : i.id # row.id /\ i.file_path # row.file_path
    /\ \E u \in user_rows : u.id = row.user_id

\* The row as the database stores it: default id, server-side created_at.
image_row(img, id, t) ==
    [id |-> id, user_id |-> img.user_id, file_path |-> img.file_path,
     prompt |-> img.prompt, created_at |-> t]

\* Variant: the helper logs the commit error and does not re-raise it.
save_db_error_swallowed(rq, exc) ==
    Respond(rollback([rq EXCEPT !.error = exc]), 200, "")

\* _commit_and_refresh_db raising: its own rollback, then the rollback and
\* the 500 of save_user_image's generic handler.
save_db_error(rq, exc) ==
    Respond(rollback(rollback([rq EXCEPT !.error = exc])), 500,
            "An unexpected error occurred while saving the image.")

\* The outcome of session.commit() for a staged image row.
save_commit_outcome(row, image_rows, user_rows, db_up) ==
    IF ~db_up THEN "Exception"
    ELSE IF ~image_insert_ok(row, image_rows, user_rows)
    THEN "IntegrityError"
    ELSE "ok"

\* session.add(image_obj); session.commit()
SaveCommit(r, db_up) ==
    /\ req[r].op = "save"
    /\ req[r].pc = "commit"
    /\ LET img == CHOOSE i \in req[r].pending : TRUE
           row == image_row(img, uuid4, now)
           outcome == save_commit_outcome(row, images, users, db_up)
       IN  IF outcome = "ok"
           THEN /\ images' = images \cup {row}
                /\ req' = [req EXCEPT ![r].commit = "ok",
                                      ![r].obj = {row},
                                      ![r].pending = {},
                                      ![r].adds = @ + 1,
                                      ![r].commits = @ + 1,
                                      ![r].pc = "refresh"]
           ELSE /\ req' = [req EXCEPT ![r] =
                             save_db_error([req[r] EXCEPT !.commit = "error",
                                                          !.adds = @ + 1,
                                                          !.commits = @ + 1],
                                           outcome)]
                /\ UNCHANGED images
    /\ UNCHANGED <<users, blobs, now, served, gcs, issued>>

\* session.refresh(image_obj), then the return of db_image.
SaveRefresh(r, db_up) ==
    /\ req[r].op = "save"
    /\ req[r].pc = "refresh"
    /\ req' = [req EXCEPT ![r] =
                 IF db_up
                 THEN Respond([req[r] EXCEPT !.refresh = "ok"], 200, "")
                 ELSE save_db_error([req[r] EXCEPT !.refresh = "error"],
                                    "Exception")]
    /\ UNCHANGED <<users, images, blobs, now, served, gcs, issued>>


\* ------------------------------------------------- POST /auth/register
\* Constraints of table "users" checked when the INSERT is flushed:
\* primary key, UNIQUE username, UNIQUE email.
user_insert_ok(row, user_rows) ==
    \A u \in user_rows :
        u.id # row.id /\ u.username # row.username /\ u.email # row.email

\* register_user up to db.add(db_user).
RegisterRequest(r, username, email, password) ==
    /\ Admit(r)
    /\ LET db_user == new_user(uuid4, username, email, password, gensalt)
       IN  req' = [req EXCEPT ![r].op = "register", ![r].pc = "commit",
                              ![r].body = [NoBody EXCEPT
                                             !.username = username,
                                             !.password = password],
                              ![r].obj = {db_user},
                              ![r].pending = {db_user},
                              ![r].adds = @ + 1,
                              ![r].db = SessionLocal]
    /\ served' = served + 1
    /\ UNCHANGED <<users, images, blobs, now, gcs, issued>>

\* Variant: IntegrityError is not told apart from other exceptions.
after_register_commit_generic(rq, outcome) ==
    IF outcome = "ok"
    THEN [rq EXCEPT !.commit = "ok", !.pending = {}, !.pc = "refresh"]
    ELSE Respond(rollback([rq EXCEPT !.commit = "error",
                                     !.error = outcome]),
                 500, "An unexpected error occurred during registration.")

\* What register_user does when db.commit() returns or raises.
after_register_commit(rq, outcome) ==
    CASE outcome = "ok" ->
           [rq EXCEPT !.commit = "ok", !.pending = {}, !.pc = "refresh"]
      [] outcome = "IntegrityError" ->
           Respond(rollback([rq EXCEPT !.commit = "error",
                                       !.error = outcome]),
                   409, "Username or email already exists.")
      [] OTHER ->
           Respond(rollback([rq EXCEPT !.commit = "error",
                                       !.error = outcome]),
                   500, "An unexpected error occurred during registration.")

\* Variant: the columns carry no UNIQUE constraint.
register_commit_outcome_unchecked(row, user_rows, db_up) ==
    IF ~db_up THEN "Exception" ELSE "ok"

\* The outcome of db.commit() for a staged user row.
register_commit_outcome(row, user_rows, db_up) ==
    IF ~db_up THEN "Exception"
    ELSE IF ~user_insert_ok(row, user_rows) THEN "IntegrityError"
    ELSE "ok"

\* db.commit()
RegisterCommit(r, db_up) ==
    /\ req[r].op = "register"
    /\ req[r].pc = "commit"
    /\ LET row == CHOOSE u \in req[r].pending : TRUE
           outcome == register_commit_outcome(row, users, db_up)
       IN  /\ users' = IF outcome = "ok" THEN users \cup {row} ELSE users
           /\ req' = [req EXCEPT ![r] =
                        after_register_commit(
                            [req[r] EXCEPT !.commits = @ + 1], outcome)]
    /\ UNCHANGED <<images, blobs, now, served, gcs, issued>>

\* What register_user does when db.refresh(db_user) returns or raises.
after_register_refresh(rq, db_up) ==
    IF db_up
    THEN Respond([rq EXCEPT !.refresh = "ok"], 200, "")
    ELSE Respond(rollback([rq EXCEPT !.refresh = "error",
                                     !.error = "Exception"]),
                 500, "An unexpected error occurred during registration.")

\* db.refresh(db_user)
RegisterRefresh(r, db_up) ==
    /\ req[r].op = "register"
    /\ req[r].pc = "refresh"
    /\ req' = [req EXCEPT ![r] = after_register_refresh(req[r], db_up)]
    /\ UNCHANGED <<users, images, blobs, now, served, gcs, issued>>

\* ------------------------------------------------ PUT /users/me/password
\* get_user_by_id: the rows of "users" with that id (at most one).
get_user_by_id(user_rows, user_id) == {u \in user_rows : u.id = user_id}

\* Variant: new_password_confirm is not compared.
password_start_unconfirmed(rq, token, current_password, new_password, new_password_confirm, salt, t, user_rows, db_up) ==
    LET td == verify_token(token, t)
        uid == get_uuid(td.user_id)
        found == get_user_by_id(user_rows, uid.uuid)
        user == CHOOSE u \in found : TRUE
        r0 == [rq EXCEPT !.op = "password", !.bearer = token]
        r2 == [r0 EXCEPT !.user_id = uid.uuid, !.obj = {user},
                         !.body = [NoBody EXCEPT
                                     !.password = current_password,
                                     !.new_password = new_password,
                                     !.new_password_confirm =
                                         new_password_confirm]]
        changed == [user EXCEPT !.hashed_password =
                        get_password_hash(new_password, salt)]
    IN  IF ~td.ok \/ uid.raised \/ uid.uuid = 0 \/ ~db_up \/ found = {}
        THEN Unauthorized(r0, credentials_exception)
        ELSE IF ~verify_password(current_password, user.hashed_password)
        THEN RespondRaised(r2, "BadRequestError", 400,
                           "Incorrect current password.")
        ELSE [r2 EXCEPT !.pc = "commit", !.adds = @ + 1,
                        !.obj = {changed}, !.pending = {changed}]

\* update_user_password up to db.add(user): the CurrentUser dependency,
\* then change_user_password's lookup and checks; the controller turns
\* AuthenticationError into 401, BadRequestError into 400 and anything
\* else into 500.
password_start(rq, token, current_password, new_password, new_password_confirm, salt, t, user_rows, db_up) ==
    LET td == verify_token(token, t)
        uid == get_uuid(td.user_id)
        found == get_user_by_id(user_rows, uid.uuid)
        user == CHOOSE u \in found : TRUE
        r0 == [rq EXCEPT !.op = "password",
                         !.bearer = token]
        r1 == [r0 EXCEPT !.user_id = uid.uuid]
        r2 == [r1 EXCEPT !.obj = {user},
                         !.body = [NoBody EXCEPT
                                     !.password = current_password,
                                     !.new_password = new_password,
                                     !.new_password_confirm =
                                         new_password_confirm]]
    IN  IF ~td.ok
        THEN Unauthorized(r0, td)
        ELSE IF uid.raised
        THEN RespondRaised(r0, "ValueError", 500,
                 "An unexpected error occurred while changing the password.")
        ELSE IF uid.uuid = 0
        THEN RespondRaised(r0, "AuthenticationError", 401,
                           "Invalid token data.")
        ELSE IF ~db_up
        THEN RespondRaised(r1, "Exception", 500,
                 "An unexpected error occurred while changing the password.")
        ELSE IF found = {}
        THEN RespondRaised(r1, "AuthenticationError", 401, "User not found.")
        ELSE IF ~verify_password(current_password, user.hashed_password)
        THEN RespondRaised(r2, "BadRequestError", 400,
                           "Incorrect current password.")
        ELSE IF new_password # new_password_confirm
        THEN RespondRaised(r2, "BadRequestError", 400,
                           "New passwords do not match.")
        ELSE LET changed == [user EXCEPT !.hashed_password =
                                 get_password_hash(new_password, salt)]
             IN  [r2 EXCEPT !.pc = "commit", !.adds = @ + 1,
                            !.obj = {changed}, !.pending = {changed}]

PasswordRequest(r, token, current_password, new_password, new_password_confirm, db_up) ==
    /\ Admit(r)
    /\ req' = [req EXCEPT ![r] =
                 get_db(password_start(req[r], token, current_password,
                                       new_password, new_password_confirm,
                                       gensalt, now, users, db_up),
                        SessionLocal)]
    /\ served' = served + 1
    /\ UNCHANGED <<users, images, blobs, now, gcs, issued>>

\* Variant: the UPDATE carries no WHERE clause.
update_password_all(user_rows, row) ==
    {[u EXCEPT !.hashed_password = row.hashed_password] : u \in user_rows}

\* Variant: the commit flushes nothing.
update_password_dropped(user_rows, row) == user_rows

\* The UPDATE flushed by db.commit(): the hash of the row with that id.
update_password(user_rows, row) ==
    {IF u.id = row.id
     THEN [u EXCEPT !.hashed_password = row.hashed_password]
     ELSE u : u \in user_rows}

\* Variant: the except block logs and re-raises without rolling back.
after_password_commit_no_rollback(rq, db_up) ==
    IF db_up
    THEN Respond([rq EXCEPT !.commit = "ok", !.commits = @ + 1,
                            !.pending = {}], 204, "")
    ELSE RespondRaised([rq EXCEPT !.commit = "error", !.commits = @ + 1],
                       "Exception", 500,
                 "An unexpected error occurred while changing the password.")

\* What change_user_password and its controller do when db.commit()
\* returns or raises.
after_password_commit(rq, db_up) ==
    IF db_up
    THEN Respond([rq EXCEPT !.commit = "ok", !.commits = @ + 1,
                            !.pending = {}], 204, "")
    ELSE RespondRaised(rollback([rq EXCEPT !.commit = "error",
                                           !.commits = @ + 1]),
                       "Exception", 500,
                 "An unexpected error occurred while changing the password.")

\* db.commit()
PasswordCommit(r, db_up) ==
    /\ req[r].op = "password"
    /\ req[r].pc = "commit"
    /\ users' = IF db_up
                THEN update_password(users, CHOOSE u \in req[r].pending : TRUE)
                ELSE users
    /\ req' = [req EXCEPT ![r] = after_password_commit(req[r], db_up)]
    /\ UNCHANGED <<images, blobs, now, served, gcs, issued>>

\* ------------------------------------------------------ POST /auth/token
\* OAuth2PasswordRequestForm bodies: the password of InitialUsers' user,
\* another password for it, and a username that has a row only once it
\* was registered.
LoginBodies ==
    {[username |-> "alice", password |-> "pw1"],
     [username |-> "alice", password |-> "pw2"],
     [username |-> "bob", password |-> "pw1"]}

\* authenticate_user: the rows it returns (none, or the user); it raises
\* only what the query raises.
authenticate_user(user_rows, username, password) ==
    LET found == {u \in user_rows : u.username = username}
        user == CHOOSE u \in found : TRUE
    IN  IF found = {} THEN {}
        ELSE IF ~verify_password(password, user.hashed_password) THEN {}
        ELSE {user}

\* What the holder of a token knows about it: the credentials it was
\* given for, and the arguments of the create_access_token call.
grant(token, username, password, user, expires_delta, t) ==
    [access_token |-> token, username |-> username, password |-> password,
     user_id |-> user.id, expires_delta |-> expires_delta, at |-> t]

\* Variant: an unknown username is reported as such.
login_for_access_token_telling(rq, username, password, user_rows, t, db_up) ==
    LET r0 == [rq EXCEPT !.op = "login",
                         !.body = [NoBody EXCEPT !.username = username,
                                                 !.password = password]]
    IN  IF ~db_up
        THEN RespondRaised(r0, "Exception", 500, "Internal Server Error")
        ELSE IF \A u \in user_rows : u.username # username
        THEN Respond(r0, 404, "User not found")
        ELSE [Respond(r0, 401, "Incorrect username or password")
                EXCEPT !.headers = BearerHeaders]

\* login_for_access_token at time t.
login_for_access_token(rq, username, password, user_rows, t, db_up) ==
    LET authenticated == authenticate_user(user_rows, username, password)
        user == CHOOSE u \in authenticated : TRUE
        r0 == [rq EXCEPT !.op = "login",
                         !.body = [NoBody EXCEPT !.username = username,
                                                 !.password = password]]
    IN  IF ~db_up
        THEN RespondRaised(r0, "Exception", 500, "Internal Server Error")
        ELSE IF authenticated = {}
        THEN [Respond(r0, 401, "Incorrect username or password")
                EXCEPT !.headers = BearerHeaders]
        ELSE [Respond(r0, 200, "") EXCEPT
                !.user_id = user.id, !.obj = {user},
                !.access_token =
                    create_access_token(
                        user.email, user.id,
                        timedelta(ACCESS_TOKEN_EXPIRE_MINUTES), t)]

\* Logging in is not counted as a request admitted: it is bounded by the
\* tokens handed out.
LoginRequest(r, username, password, db_up) ==
    /\ req[r].pc = "idle"
    /\ \A q \in Reqs : q < r => req[q].pc # "idle"
    /\ Cardinality(issued) < MaxTokens
    /\ LET rq == get_db(login_for_access_token(req[r], username, password,
                                               users, now, db_up),
                        SessionLocal)
       IN  /\ req' = [req EXCEPT ![r] = rq]
           /\ issued' = IF rq.status = 200
                        THEN issued \cup
                             {grant(rq.access_token, username, password,
                                    CHOOSE u \in rq.obj : TRUE,
                                    timedelta(ACCESS_TOKEN_EXPIRE_MINUTES),
                                    now)}
                        ELSE issued
    /\ UNCHANGED <<users, images, blobs, now, served, gcs>>

\* ------------------------------------------------------- GET /users/me
\* read_users_me: the CurrentUser dependency, get_current_user_details,
\* and the controller turning AuthenticationError into 404.
read_users_me(rq, token, t, user_rows, db_up) ==
    LET td == verify_token(token, t)
        uid == get_uuid(td.user_id)
        found == get_user_by_id(user_rows, uid.uuid)
        r0 == [rq EXCEPT !.op = "me",
                         !.bearer = token]
        r1 == [r0 EXCEPT !.user_id = uid.uuid]
    IN  IF ~td.ok
        THEN Unauthorized(r0, td)
        ELSE IF uid.raised
        THEN RespondRaised(r0, "ValueError", 500, "Internal Server Error")
        ELSE IF uid.uuid = 0
        THEN RespondRaised(r0, "AuthenticationError", 404,
                           "Invalid token data.")
        ELSE IF ~db_up
        THEN RespondRaised(r1, "Exception", 500, "Internal Server Error")
        ELSE IF found = {}
        THEN RespondRaised(r1, "AuthenticationError", 404, "User not found.")
        ELSE Respond([r1 EXCEPT !.obj = found], 200, "")

ReadMeRequest(r, token, db_up) ==
    /\ Admit(r)
    /\ req' = [req EXCEPT ![r] =
                 get_db(read_users_me(req[r], token, now, users, db_up),
                        SessionLocal)]
    /\ served' = served + 1
    /\ UNCHANGED <<users, images, blobs, now, gcs, issued>>

\* ------------------------------------------------------- GET /image/me
SIGNED_URL_MINUTES == 15

\* No URL: the empty string, or the None that stands for a failure.
NoUrl == [path |-> NoBlobName, method |-> "", expires |-> 0]

\* blob.generate_signed_url(version="v4", expiration=timedelta(minutes=15),
\* method="GET") at time t: a URL for that path.
generate_signed_url(blob_name, t) ==
    [path |-> blob_name, method |-> "GET",
     expires |-> t + timedelta(SIGNED_URL_MINUTES)]

\* _generate_signed_url_sync: the URL, "" when the library raises
\* NotFound, and any other exception re-raised.
generate_signed_url_sync(blob_name, t, outcome) ==
    CASE outcome = "ok" ->
           [kind |-> "url", url |-> generate_signed_url(blob_name, t)]
      [] outcome = "NotFound" -> [kind |-> "empty", url |-> NoUrl]
      [] OTHER -> [kind |-> "exception", url |-> NoUrl]

\* The orderings of a finite set.
Orderings(S) ==
    {s \in [1..Cardinality(S) -> S] :
        \A i, j \in 1..Cardinality(S) : i # j => s[i] # s[j]}

\* Variant: the query has no filter on the owner.
fetch_images_db_unfiltered(image_rows, user_uuid) ==
    {s \in Orderings(image_rows) :
        \A k \in 1..(Len(s) - 1) : s[k].created_at >= s[k + 1].created_at}

\* _fetch_images_db: the lists the query may return, the rows of that
\* user by created_at descending; rows created at the same instant come
\* in any order.
fetch_images_db(image_rows, user_uuid) ==
    {s \in Orderings({i \in image_rows : i.user_id = user_uuid}) :
        \A k \in 1..(Len(s) - 1) : s[k].created_at >= s[k + 1].created_at}

\* [img for img in user_images if img.file_path]
images_with_paths(user_images) ==
    SelectSeq(user_images, LAMBDA img : img.file_path # NoBlobName)

\* Variant: the results are taken in the order the tasks completed.
gather_as_completed(done, n) == [k \in 1..n |-> done[k].result]

\* asyncio.gather(*url_tasks, return_exceptions=True) once the n tasks
\* have completed: the result of task k at position k, whatever the order
\* of completion.
gather(done, n) ==
    [k \in 1..n |->
        (CHOOSE d \in {done[i] : i \in 1..Len(done)} : d.k = k).result]

\* The entry appended for an image and its URL.
image_entry(image, image_url) ==
    [id |-> image.id, file_path |-> image.file_path,
     prompt |-> image.prompt, created_at |-> image.created_at,
     image_url |-> image_url]

\* The loop over zip(images_with_paths, signed_urls): an entry for every
\* image whose result is a non-empty URL.
combine(imgs, signed_urls) ==
    LET all == [k \in 1..Len(imgs) |->
                   image_entry(imgs[k],
                               IF signed_urls[k].kind = "url"
                               THEN signed_urls[k].url ELSE NoUrl)]
    IN  SelectSeq(all, LAMBDA e : e.image_url # NoUrl)

\* list_my_images up to the first suspension of get_user_images_with_urls:
\* the CurrentUser dependency, the controller's checks and the
\* configuration checks; then the query is awaited.
list_start(rq, token, t, config) ==
    LET td == verify_token(token, t)
        uid == get_uuid(td.user_id)
        r0 == [rq EXCEPT !.op = "list", !.bearer = token]
        r1 == [r0 EXCEPT !.user_id = uid.uuid]
    IN  IF ~td.ok
        THEN Unauthorized(r0, td)
        ELSE IF td.user_id.kind = "empty"
        THEN Respond(r0, 401, "Authentication required")
        ELSE IF uid.raised
        THEN RespondRaised(r0, "ValueError", 500, "Internal Server Error")
        ELSE IF config = "not_configured"
        THEN Respond(r1, 500,
                     "Server configuration error: Image storage is not set up correctly.")
        ELSE IF config = "no_project"
        THEN Respond(r1, 500,
                     "Server configuration error: Image storage project ID missing.")
        ELSE [r1 EXCEPT !.pc = "fetch"]

ListRequest(r, token) ==
    /\ Admit(r)
    /\ req' = [req EXCEPT ![r] =
                 get_db(list_start(req[r], token, now, gcs), SessionLocal)]
    /\ served' = served + 1
    /\ UNCHANGED <<users, images, blobs, now, gcs, issued>>

\* The handler of get_user_images_with_urls' outer try: whatever the
\* query or the loop raised becomes one 500.
list_error(rq, exc) ==
    Respond([rq EXCEPT !.error = exc], 500,
            "An unexpected error occurred while retrieving user images.")

\* await asyncio.to_thread(_fetch_images_db, db, user_id)
ListFetch(r, db_up) ==
    /\ req[r].op = "list"
    /\ req[r].pc = "fetch"
    /\ IF db_up
       THEN \E s \in fetch_images_db(images, req[r].user_id) :
               req' = [req EXCEPT ![r].user_images = s, ![r].pc = "urls"]
       ELSE req' = [req EXCEPT ![r] = list_error(req[r], "Exception")]
    /\ UNCHANGED <<users, images, blobs, now, served, gcs, issued>>

\* The tasks of a listing that have not completed.
pending_tasks(rq) ==
    {k \in 1..Len(images_with_paths(rq.user_images)) :
        \A i \in 1..Len(rq.url_tasks) : rq.url_tasks[i].k # k}

\* One of the signed-URL tasks a listing awaits completes.
ListSignUrl(r, k, outcome) ==
    /\ req[r].op = "list"
    /\ req[r].pc = "urls"
    /\ k \in pending_tasks(req[r])
    /\ req' = [req EXCEPT ![r].url_tasks =
                 Append(@, [k |-> k,
                            result |-> generate_signed_url_sync(
                                images_with_paths(req[r].user_images)[k]
                                    .file_path, now, outcome)])]
    /\ UNCHANGED <<users, images, blobs, now, served, gcs, issued>>

\* Variant: gather is called without return_exceptions, so a task's
\* exception leaves the try block.
list_return_raising(rq) ==
    LET imgs == images_with_paths(rq.user_images)
        signed_urls == gather(rq.url_tasks, Len(imgs))
    IN  IF \E k \in 1..Len(imgs) : signed_urls[k].kind = "exception"
        THEN list_error(rq, "Exception")
        ELSE Respond([rq EXCEPT !.image_data_with_urls =
                                   combine(imgs, signed_urls)], 200, "")

\* Variant: the entries are collected in a list that outlives the call.
list_return_shared(rq) ==
    LET imgs == images_with_paths(rq.user_images)
        signed_urls == gather(rq.url_tasks, Len(imgs))
        kept == UNION {{req[q].image_data_with_urls[i] :
                           i \in 1..Len(req[q].image_data_with_urls)}
                       : q \in Reqs}
        earlier == CHOOSE s \in Orderings(kept) : TRUE
    IN  Respond([rq EXCEPT !.image_data_with_urls =
                    earlier \o combine(imgs, signed_urls)], 200, "")

\* get_user_images_with_urls once gather has returned: the entries are
\* built and returned.
list_return(rq) ==
    LET imgs == images_with_paths(rq.user_images)
        signed_urls == gather(rq.url_tasks, Len(imgs))
    IN  Respond([rq EXCEPT !.image_data_with_urls =
                    combine(imgs, signed_urls)], 200, "")

ListReturn(r) ==
    /\ req[r].op = "list"
    /\ req[r].pc = "urls"
    /\ pending_tasks(req[r]) = {}
    /\ req' = [req EXCEPT ![r] = list_return(req[r])]
    /\ UNCHANGED <<users, images, blobs, now, served, gcs, issued>>

\* ---------------------------------------------------- GET /image/generate
\* What the provider's exceptions say.
ProviderTexts == {"429 quota exceeded for key AIza", "connection reset"}

\* What client.aio.models.generate_content does: a response with an
\* image part, a response without candidates, a response whose parts
\* carry no inline data, or an exception with a text.
ProviderResponses ==
    {[kind |-> "image", data |-> <<"A", "B">>, text |-> ""],
     [kind |-> "no_candidates", data |-> <<>>, text |-> ""],
     [kind |-> "no_inline_data", data |-> <<>>, text |-> ""]}
    \cup {[kind |-> "raise", data |-> <<>>, text |-> t] : t \in ProviderTexts}

\* base64.b64encode: the data characters, padded with "=" to a quad.
b64encode(bytes) ==
    bytes \o [k \in 1..((4 - (Len(bytes) % 4)) % 4) |-> "="]

\* generate_image_service: the base64 string, the sentinel string, or an
\* HTTPException whose detail is formatted with the exception's text.
generate_image_service(prompt, response) ==
    CASE response.kind = "raise" ->
           [raised |-> "HTTPException", status |-> 500,
            detail |-> "Google GenAI API call failed: {e}",
            detail_args |-> <<response.text>>, value |-> <<>>,
            sentinel |-> FALSE]
      [] response.kind = "image" ->
           [raised |-> "", status |-> 0, detail |-> "",
            detail_args |-> <<>>, value |-> b64encode(response.data),
            sentinel |-> FALSE]
      [] OTHER ->
           [raised |-> "", status |-> 0, detail |-> "",
            detail_args |-> <<>>, value |-> <<>>, sentinel |-> TRUE]

\* Variant: an HTTPException of the service is re-raised as it is, the
\* way the other handlers of this controller do.
generate_image_reraising(rq, prompt, response) ==
    LET image == generate_image_service(prompt, response)
        r0 == [rq EXCEPT !.op = "generate", !.prompt = prompt,
                         !.cause = response.text]
    IN  IF image.raised # ""
        THEN [Respond(r0, image.status, image.detail)
                EXCEPT !.detail_args = image.detail_args]
        ELSE IF image.sentinel
        THEN Respond(r0, 500, "Image generation failed.")
        ELSE [Respond(r0, 200, "") EXCEPT !.content = image.value]

\* generate_image: whatever is raised inside the try, the service's
\* HTTPException and the controller's own included, is replaced by one
\* HTTPException.
generate_image(rq, prompt, response) ==
    LET image == generate_image_service(prompt, response)
        r0 == [rq EXCEPT !.op = "generate", !.prompt = prompt,
                         !.cause = response.text]
    IN  IF image.raised # "" \/ image.sentinel
        THEN Respond(r0, 500, "An error occurred during image generation.")
        ELSE [Respond(r0, 200, "") EXCEPT !.content = image.value]

GenerateRequest(r, prompt, response) ==
    /\ Admit(r)
    /\ req' = [req EXCEPT ![r] = generate_image(req[r], prompt, response)]
    /\ served' = served + 1
    /\ UNCHANGED <<users, images, blobs, now, gcs, issued>>

\* ------------------------------------------------------- request scope
\* get_db's finally: the session, if the request was given one, is
\* closed, and the request is over.
CloseSession(r) ==
    /\ req[r].pc = "done"
    /\ req' = [req EXCEPT ![r] = IdleReq]
    /\ UNCHANGED <<users, images, blobs, now, served, gcs, issued>>

\* The clock: one token lifetime passes.
Tick ==
    /\ now < MaxTicks * timedelta(ACCESS_TOKEN_EXPIRE_MINUTES)
    /\ now' = now + timedelta(ACCESS_TOKEN_EXPIRE_MINUTES)
    /\ UNCHANGED <<users, images, blobs, req, served, gcs, issued>>

Next ==
    \/ \E r \in Reqs, token \in BearerTokens, body \in SaveBodies :
          SaveRequest(r, token, body.image_base64, body.prompt)
    \/ \E r \in Reqs, outcome \in {"ok", "GoogleAPIError", "Exception"} :
          SaveUpload(r, outcome)
    \/ \E r \in Reqs, db_up \in BOOLEAN : SaveCommit(r, db_up)
    \/ \E r \in Reqs, db_up \in BOOLEAN : SaveRefresh(r, db_up)
    \/ \E r \in Reqs, body \in RegisterBodies :
          RegisterRequest(r, body.username, body.email, body.password)
    \/ \E r \in Reqs, db_up \in BOOLEAN : RegisterCommit(r, db_up)
    \/ \E r \in Reqs, db_up \in BOOLEAN : RegisterRefresh(r, db_up)
    \/ \E r \in Reqs, token \in BearerTokens, body \in PasswordBodies,
          db_up \in BOOLEAN :
          PasswordRequest(r, token, body.current_password, body.new_password,
                          body.new_password_confirm, db_up)
    \/ \E r \in Reqs, db_up \in BOOLEAN : PasswordCommit(r, db_up)
    \/ \E r \in Reqs : CloseSession(r)
    \/ Tick

Spec == Init /\ [][Next]_vars

\* ------------------------------------------ the save pipeline alone
\* Every image_base64 string of at most MaxPayloadLen characters.
AllPayloads == UNION {[1..n -> B64Chars] : n \in 0..MaxPayloadLen}

\* One save request per behaviour, with any of the strings.
NextSave ==
    \/ /\ served = 0
       /\ \E token \in BearerTokens, payload \in AllPayloads :
             SaveRequest(1, token, payload, "a cat")
    \/ \E outcome \in {"ok", "GoogleAPIError", "Exception"} :
          SaveUpload(1, outcome)
    \/ \E db_up \in BOOLEAN : SaveCommit(1, db_up)
    \/ \E db_up \in BOOLEAN : SaveRefresh(1, db_up)
    \/ CloseSession(1)

SpecSave == Init /\ [][NextSave]_vars

\* ------------------------------------------------ the identity side alone
\* Login, the endpoints that resolve the user named by the token, and the
\* clock.
NextAuth ==
    \/ \E r \in Reqs, body \in LoginBodies, db_up \in BOOLEAN :
          LoginRequest(r, body.username, body.password, db_up)
    \/ \E r \in Reqs, token \in BearerTokens, db_up \in BOOLEAN :
          ReadMeRequest(r, token, db_up)
    \/ \E r \in Reqs, token \in BearerTokens, body \in PasswordBodies,
          db_up \in BOOLEAN :
          PasswordRequest(r, token, body.current_password, body.new_password,
                          body.new_password_confirm, db_up)
    \/ \E r \in Reqs, db_up \in BOOLEAN : PasswordCommit(r, db_up)
    \/ \E r \in Reqs : CloseSession(r)
    \/ Tick

SpecAuth == Init /\ [][NextAuth]_vars

\* ------------------------------------------------- the token codec alone
\* The expires_delta values tokens are made with, in clock units.
Deltas == 1..MaxDelta

\* create_access_token applied to a user id and a delta.
IssueToken(user_id, expires_delta) ==
    /\ Cardinality(issued) < MaxTokens
    /\ issued' = issued \cup
          {grant(create_access_token("a@x.io", user_id, expires_delta, now),
                 "", "", [id |-> user_id], expires_delta, now)}
    /\ UNCHANGED <<users, images, blobs, req, now, served, gcs>>

\* Half a second passes.
TickUnit ==
    /\ now <= MaxDelta
    /\ now' = now + 1
    /\ UNCHANGED <<users, images, blobs, req, served, gcs, issued>>

\* Tokens of any user id and delta are made, and presented to an endpoint
\* behind the CurrentUser dependency as the half seconds pass.
NextToken ==
    \/ \E user_id \in TokenUserIds, delta \in Deltas :
          IssueToken(user_id, delta)
    \/ \E token \in BearerTokens, db_up \in BOOLEAN :
          ReadMeRequest(1, token, db_up)
    \/ CloseSession(1)
    \/ TickUnit

SpecToken == Init /\ [][NextToken]_vars

\* --------------------------------------------------- the listing alone
\* A user registered next to InitialUsers' user by an earlier process.
StoredUsers ==
    {new_user(1, "alice", "a@x.io", "pw1", 1),
     new_user(3, "bob", "b@x.io", "pw2", 2)}

\* The row and the object an earlier save of that user left: the k-th
\* was committed at -(k \div 2), so the first is the newest and the
\* second and third carry the same created_at.
stored_image(owner, k) ==
    image_row(new_image(owner, blob_name_of(owner, 20 + k), "a cat"),
              10 + k, 0 - (k \div 2))
stored_blob(owner, k) ==
    [path |-> blob_name_of(owner, 20 + k), data |-> <<"A", "A", "A">>,
     content_type |-> "image/png"]

\* The database and the bucket earlier saves left: up to MaxStored images
\* of one user, and one image of another.
InitList ==
    /\ users = StoredUsers
    /\ \E n \in 0..MaxStored :
          /\ images = {stored_image(1, k) : k \in 1..n}
                      \cup {stored_image(3, MaxStored + 1)}
          /\ blobs = {stored_blob(1, k) : k \in 1..n}
                     \cup {stored_blob(3, MaxStored + 1)}
    /\ req = [r \in Reqs |-> IdleReq]
    /\ now = 0
    /\ served = 0
    /\ gcs \in {"ok", "not_configured", "no_project"}
    /\ issued = {}

\* The tokens presented to the listing: those of BearerTokens and one an
\* earlier login returned to the other user.
ListTokens ==
    BearerTokens \cup {jwt_encode("b@x.io", str(3), FirstExpiry, SECRET_KEY)}

NextList ==
    \/ \E r \in Reqs, token \in ListTokens : ListRequest(r, token)
    \/ \E r \in Reqs, db_up \in BOOLEAN : ListFetch(r, db_up)
    \/ \E r \in Reqs, k \in 1..(MaxStored + 1),
          outcome \in {"ok", "NotFound", "Exception"} :
          ListSignUrl(r, k, outcome)
    \/ \E r \in Reqs : ListReturn(r)
    \/ \E r \in Reqs : CloseSession(r)

SpecList == InitList /\ [][NextList]_vars

\* ---------------------------------------------- the scope of a session
\* A database holding one image, so that a listing awaits one signed URL.
InitScope ==
    /\ users = StoredUsers
    /\ images = {stored_image(1, 1)}
    /\ blobs = {stored_blob(1, 1)}
    /\ req = [r \in Reqs |-> IdleReq]
    /\ now = 0
    /\ served = 0
    /\ gcs \in {"ok", "not_configured", "no_project"}
    /\ issued = {}

\* The next step of request r: the query or a signed-URL call it awaits
\* returning or raising, the handler returning, and get_db's finally.
Resume(r) ==
    \/ \E db_up \in BOOLEAN : ListFetch(r, db_up)
    \/ \E outcome \in {"ok", "NotFound", "Exception"} :
          ListSignUrl(r, 1, outcome)
    \/ ListReturn(r)
    \/ CloseSession(r)

\* The tokens that tell the exits of a request apart: one the dependency
\* refuses, one whose user id is no UUID, and one of a stored user.
ScopeTokens ==
    {GarbageToken} \cup
    {jwt_encode("a@x.io", c, FirstExpiry, SECRET_KEY) : c \in {BadClaim, str(1)}}

\* Listings and GET /users/me in two slots.
NextScope ==
    \/ \E r \in Reqs, token \in ScopeTokens : ListRequest(r, token)
    \/ \E r \in Reqs, token \in ScopeTokens, db_up \in BOOLEAN :
          ReadMeRequest(r, token, db_up)
    \/ \E r \in Reqs : Resume(r)

\* The scheduling the server gives: every call a request awaits returns
\* or raises, and a request that can take its next step takes it.
SpecScope ==
    /\ InitScope
    /\ [][NextScope]_vars
    /\ \A r \in Reqs : WF_vars(Resume(r))

\* ------------------------------------------------ every endpoint in turn
\* One request after the other, each on any endpoint of the API.
NextApi ==
    \/ \E response \in ProviderResponses :
          GenerateRequest(1, "a cat", response)
    \/ \E token \in BearerTokens, body \in SaveBodies :
          SaveRequest(1, token, body.image_base64, body.prompt)
    \/ \E outcome \in {"ok", "GoogleAPIError", "Exception"} :
          SaveUpload(1, outcome)
    \/ \E db_up \in BOOLEAN : SaveCommit(1, db_up)
    \/ \E db_up \in BOOLEAN : SaveRefresh(1, db_up)
    \/ \E token \in BearerTokens : ListRequest(1, token)
    \/ \E db_up \in BOOLEAN : ListFetch(1, db_up)
    \/ \E k \in 1..MaxRequests,
          outcome \in {"ok", "NotFound", "Exception"} :
          ListSignUrl(1, k, outcome)
    \/ ListReturn(1)
    \/ \E body \in RegisterBodies :
          RegisterRequest(1, body.username, body.email, body.password)
    \/ \E db_up \in BOOLEAN : RegisterCommit(1, db_up)
    \/ \E db_up \in BOOLEAN : RegisterRefresh(1, db_up)
    \/ \E body \in LoginBodies, db_up \in BOOLEAN :
          LoginRequest(1, body.username, body.password, db_up)
    \/ \E token \in BearerTokens, db_up \in BOOLEAN :
          ReadMeRequest(1, token, db_up)
    \/ \E token \in BearerTokens, body \in PasswordBodies, db_up \in BOOLEAN :
          PasswordRequest(1, token, body.current_password, body.new_password,
                          body.new_password_confirm, db_up)
    \/ \E db_up \in BOOLEAN : PasswordCommit(1, db_up)
    \/ CloseSession(1)
    \/ Tick

SpecApi == Init /\ [][NextApi]_vars


\* ================================================================ claims
blob_at(path) == {b \in blobs : b.path = path}
rows_at(path) == {i \in images : i.file_path = path}
collide(x, y) == x.username = y.username \/ x.email = y.email

\* C1: in every reachable state, whatever saves succeeded or failed at
\* decode, upload or commit, every Image row's file_path names an object
\* that was uploaded to the bucket: no row exists before its upload.
C1_ImageRowsHaveBlobs == \A i \in images : blob_at(i.file_path) # {}

\* A save has committed its row while another left its blob without one.
C1_Witness ==
    /\ images # {}
    /\ \E b \in blobs : rows_at(b.path) = {}

\* C2: a state-mutating authenticated operation acts only for a user that
\* has a row: a password change is staged only for a stored user, and no
\* object is uploaded and no Image row is created under a user id that
\* has no User row.
C2_MutationsResolveUser ==
    /\ \A r \in Reqs :
          (req[r].op = "password" /\ req[r].pc = "commit")
             => get_user_by_id(users, req[r].user_id) # {}
    /\ \A b \in blobs : get_user_by_id(users, b.path.user_id) # {}
    /\ \A i \in images : get_user_by_id(users, i.user_id) # {}

\* C3: within one save the upload starts only after the decode succeeded,
\* and the insert/commit starts only after the upload succeeded and the
\* object is in the bucket.
C3_StepsInOrder ==
    \A r \in Reqs :
        req[r].op = "save" =>
          /\ (req[r].pc = "upload" \/ req[r].upload # "pending")
                => req[r].decode = "ok"
          /\ (req[r].pc \in {"commit", "refresh"} \/ req[r].commit # "pending")
                => /\ req[r].upload = "ok"
                   /\ blob_at(req[r].blob_name) # {}

\* One save went through all three steps, another stopped at the decode.
C3_Witness ==
    \E r, q \in Reqs :
        /\ req[r].op = "save" /\ req[r].refresh = "ok"
        /\ req[q].op = "save" /\ req[q].decode = "error"

\* C4: when the commit of a save fails after its upload succeeded, the
\* session is rolled back and nothing stays staged, no Image row names
\* that save's path, the uploaded object is still in the bucket, and the
\* response is 500.
C4_CommitFailure ==
    \A r \in Reqs :
        (req[r].op = "save" /\ req[r].commit = "error") =>
          /\ req[r].pc = "done"
          /\ req[r].status = 500
          /\ req[r].rollbacks >= 1
          /\ req[r].pending = {}
          /\ rows_at(req[r].blob_name) = {}
          /\ \E b \in blob_at(req[r].blob_name) : b.data = req[r].image_bytes

\* A save whose commit raised after its upload had succeeded.
C4_Witness ==
    \E r \in Reqs :
        /\ req[r].op = "save" /\ req[r].upload = "ok"
        /\ req[r].commit = "error" /\ req[r].error = "Exception"

\* C5: when the upload of a save raises, the response is 500 (with the
\* cloud-storage detail for a storage-provider error), the session is
\* rolled back, the commit never starts and no Image row names that
\* save's path.
C5_UploadFailure ==
    \A r \in Reqs :
        (req[r].op = "save" /\ req[r].upload = "error") =>
          /\ req[r].pc = "done"
          /\ req[r].status = 500
          /\ req[r].error = "GoogleAPIError"
                => req[r].detail = "Error interacting with cloud storage."
          /\ req[r].rollbacks >= 1
          /\ req[r].pending = {}
          /\ req[r].commit = "pending"
          /\ rows_at(req[r].blob_name) = {}
          /\ blob_at(req[r].blob_name) = {}

\* A save whose upload raised a storage-provider error.
C5_Witness ==
    \E r \in Reqs :
        /\ req[r].op = "save" /\ req[r].upload = "error"
        /\ req[r].error = "GoogleAPIError"

\* C6: every save_user_image invocation (storage configured) whose
\* image_base64 is not well-formed base64 is answered 400, uploads no
\* object and creates no Image row.
C6_MalformedRejected ==
    \A r \in Reqs :
        (/\ req[r].op = "save"
         /\ req[r].user_id # 0
         /\ gcs = "ok"
         /\ ~WellFormedB64(req[r].payload))
        => /\ req[r].pc = "done" => req[r].status = 400
           /\ req[r].upload # "ok"
           /\ blob_at(req[r].blob_name) = {}
           /\ rows_at(req[r].blob_name) = {}

\* C7: a save's upload writes a new object under a path no object had
\* before; its commit adds exactly one row, owned by the token's user id
\* and naming that path; and when the save returns 200 that single row
\* and that object are there.
C7_Step ==
    \A r \in Reqs :
        req[r].op = "save" =>
          /\ (req[r].pc = "upload" /\ req'[r].pc = "commit")
                => /\ blob_at(req[r].blob_name) = {}
                   /\ blobs' = blobs \cup
                        {[path |-> req[r].blob_name,
                          data |-> req[r].image_bytes,
                          content_type |-> "image/png"]}
                   /\ Cardinality(blobs') = Cardinality(blobs) + 1
          /\ (req[r].pc = "commit" /\ req'[r].pc = "refresh")
                => \E row \in images' :
                      /\ row \notin images
                      /\ images' = images \cup {row}
                      /\ row.user_id = req[r].user_id
                      /\ row.file_path = req[r].blob_name
                      /\ req[r].blob_name.user_id = req[r].user_id
          /\ (req[r].pc = "refresh" /\ req'[r].status = 200)
                => /\ images' = images
                   /\ Cardinality(rows_at(req[r].blob_name)) = 1
                   /\ \A i \in rows_at(req[r].blob_name) :
                         i.user_id = req[r].user_id
                   /\ blob_at(req[r].blob_name) # {}

C7_OneFreshRowPerSave == [][C7_Step]_vars

\* Two saves of the same bytes by one user: two rows, two objects.
C7_Witness ==
    \E i, j \in images :
        /\ i.file_path # j.file_path
        /\ i.user_id = j.user_id
        /\ \E b \in blob_at(i.file_path), c \in blob_at(j.file_path) :
              b.data = c.data

\* C8: when the commit of a registration meets a row with the same
\* username or email, the table is left as it was (one row for that
\* username or email, unchanged), the session is rolled back, and the
\* response is 409; it is 500 only when the commit itself raised another
\* exception.
C8_Step ==
    \A r \in Reqs :
        (/\ req[r].op = "register"
         /\ req[r].pc = "commit"
         /\ req'[r].pc # "commit"
         /\ \E x \in req[r].pending, u \in users : collide(x, u))
        => /\ users' = users
           /\ req'[r].pc = "done"
           /\ req'[r].rollbacks = 1
           /\ req'[r].pending = {}
           /\ req'[r].status \in {409, 500}
           /\ req'[r].status = 500 => req'[r].error = "Exception"
           /\ \A x \in req[r].pending :
                 /\ Cardinality({u \in users' : u.username = x.username}) <= 1
                 /\ Cardinality({u \in users' : u.email = x.email}) <= 1

C8_DuplicateRegistration == [][C8_Step]_vars

\* A registration answered 409 because another row holds its username.
C8_Witness ==
    \E r \in Reqs :
        /\ req[r].op = "register" /\ req[r].status = 409
        /\ req[r].rollbacks = 1
        /\ \E x \in req[r].obj, u \in users :
              u.username = x.username /\ u.id # x.id

\* C9: no two User rows share a username, an email or an id; of two
\* registrations in flight together that collide on username or email at
\* most one commits, and the other, once answered by the database, gets
\* 409.
C9_UniqueUsers ==
    /\ \A u, v \in users :
          u # v => u.username # v.username /\ u.email # v.email
                   /\ u.id # v.id
    /\ \A r, q \in Reqs :
          (/\ r # q
           /\ req[r].op = "register" /\ req[q].op = "register"
           /\ \E x \in req[r].obj, y \in req[q].obj : collide(x, y))
          => /\ ~(req[r].commit = "ok" /\ req[q].commit = "ok")
             /\ (/\ req[r].commit = "ok"
                 /\ req[q].pc = "done"
                 /\ req[q].error # "Exception")
                => req[q].status = 409

\* Two overlapping registrations collided: the one admitted later
\* committed first, and the earlier one met only that row and got 409.
C9_Witness ==
    \E r, q \in Reqs :
        /\ r # q
        /\ req[r].op = "register" /\ req[q].op = "register"
        /\ req[r].commit = "ok" /\ req[q].status = 409
        /\ \E x \in req[r].obj, y \in req[q].obj :
              /\ collide(x, y)
              /\ y.id < x.id
              /\ \A u \in users : collide(u, y) => u.id = x.id

\* C10: a registration answered 500 was rolled back and added no User
\* row.
C10_FailureAddsNoRow ==
    \A r \in Reqs :
        (req[r].op = "register" /\ req[r].pc = "done" /\ req[r].status = 500)
        => /\ req[r].rollbacks >= 1
           /\ \A x \in req[r].obj : get_user_by_id(users, x.id) = {}

\* C11: when db.commit raises a non-integrity exception during
\* register_user, that exception itself is what register_user raises,
\* db.add was called exactly once and db.rollback was not called.
C11_CommitErrorPropagates ==
    \A r \in Reqs :
        (/\ req[r].op = "register"
         /\ req[r].commit = "error"
         /\ req[r].error = "Exception")
        => /\ req[r].raised = "Exception"
           /\ req[r].adds = 1
           /\ req[r].rollbacks = 0

\* C12: a login with an unknown username and a login with a known
\* username and a wrong password get the same outcome: authenticate_user
\* returns no user without raising, and login answers the one 401
\* (same status, detail and headers) and hands out no token.
C12_Step ==
    \A r \in Reqs :
        (/\ req[r].pc = "idle"
         /\ req'[r].op = "login"
         /\ req'[r].error # "Exception"
         /\ \/ \A u \in users : u.username # req'[r].body.username
            \/ \E u \in users :
                  /\ u.username = req'[r].body.username
                  /\ ~verify_password(req'[r].body.password,
                                      u.hashed_password))
        => /\ authenticate_user(users, req'[r].body.username,
                                req'[r].body.password) = {}
           /\ req'[r].status = 401
           /\ req'[r].detail = "Incorrect username or password"
           /\ req'[r].headers = BearerHeaders
           /\ req'[r].raised = "HTTPException"
           /\ req'[r].access_token = NoToken
           /\ issued' = issued

C12_LoginFailuresAlike == [][C12_Step]_vars

\* Two logins answered side by side, one for a username that has no row
\* and one for a stored username with another password: the responses
\* are equal.
C12_Witness ==
    \E r, q \in Reqs :
        /\ req[r].op = "login" /\ req[r].pc = "done"
        /\ req[q].op = "login" /\ req[q].pc = "done"
        /\ \A u \in users : u.username # req[r].body.username
        /\ \E u \in users :
              /\ u.username = req[q].body.username
              /\ ~verify_password(req[q].body.password, u.hashed_password)
        /\ req[r].status = 401
        /\ <<req[r].status, req[r].detail, req[r].headers,
              req[r].access_token>>
           = <<req[q].status, req[q].detail, req[q].headers,
               req[q].access_token>>

\* C13 as stated: for every user id and every positive delta, the token
\* made by create_access_token, verified at any instant before its expiry
\* (the instant it was made plus delta), yields TokenData with
\* user_id = str(user_id).
C13_RoundTripBeforeExpiry ==
    \A g \in issued :
        now < g.at + g.expires_delta
        => LET td == verify_token(g.access_token, now)
           IN  td.ok /\ td.user_id = str(g.user_id)

\* C13 amended: the same at any instant whose whole second is before the
\* whole second of the expiry ("exp" is stored in whole seconds, the
\* fraction dropped, and compared with the current second).
C13_RoundTripBeforeExpirySecond ==
    \A g \in issued :
        timegm(now) < timegm(g.at + g.expires_delta)
        => LET td == verify_token(g.access_token, now)
           IN  td.ok /\ td.user_id = str(g.user_id)

\* A token made with a short delta was presented later, passed
\* verify_token and named the user it was made for.
C13_Witness ==
    \E g \in issued, r \in Reqs :
        /\ g.expires_delta \in Deltas
        /\ now > g.at
        /\ req[r].op = "me" /\ req[r].pc = "done"
        /\ req[r].bearer = g.access_token
        /\ req[r].user_id = g.user_id

\* C14: a request behind the CurrentUser dependency whose token is not
\* signed under the configured secret, is expired, or carries no user id
\* is answered 401 by verify_token, and no claims of the token reach the
\* handler: nothing is read, staged or changed for it.
C14_Step ==
    \A r \in Reqs :
        (/\ req[r].pc = "idle"
         /\ req'[r].op \in {"me", "password"}
         /\ \/ ~req'[r].bearer.jwt
            \/ req'[r].bearer.key # SECRET_KEY
            \/ req'[r].bearer.exp <= timegm(now)
            \/ req'[r].bearer.user_id = NoClaim)
        => /\ ~verify_token(req'[r].bearer, now).ok
           /\ verify_token(req'[r].bearer, now).user_id = NoClaim
           /\ req'[r].pc = "done"
           /\ req'[r].status = 401
           /\ req'[r].detail = "Could not validate credentials"
           /\ req'[r].headers = BearerHeaders
           /\ req'[r].user_id = 0
           /\ req'[r].obj = {} /\ req'[r].pending = {}
           /\ users' = users

C14_BadTokenRejected == [][C14_Step]_vars

\* A token login handed out was presented after its expiry and refused,
\* next to a request refused for a signature under another key.
C14_Witness ==
    \E g \in issued, r, q \in Reqs :
        /\ req[r].op = "me" /\ req[r].status = 401
        /\ req[r].bearer = g.access_token
        /\ g.access_token.exp <= timegm(now)
        /\ req[q].op = "password" /\ req[q].status = 401
        /\ req[q].bearer.jwt /\ req[q].bearer.key # SECRET_KEY

\* C15: the auth service signals an authentication failure by raising
\* AuthenticationError: verify_token for a token it refuses, and
\* login_for_access_token when authenticate_user returned no user.
C15_RaisesAuthenticationError ==
    \A r \in Reqs :
        /\ (/\ req[r].op \in {"me", "password", "save"}
            /\ req[r].pc = "done"
            /\ req[r].detail = "Could not validate credentials")
           => req[r].raised = "AuthenticationError"
        /\ (/\ req[r].op = "login"
            /\ req[r].pc = "done"
            /\ req[r].status = 401)
           => req[r].raised = "AuthenticationError"

\* C16: a password change for a stored user whose current_password does
\* not verify against the stored hash, or whose new_password differs
\* from new_password_confirm, raises BadRequestError (400) and leaves the
\* stored hash as it was: db.add and db.commit are not called.
C16_Step ==
    \A r \in Reqs :
        (/\ req[r].pc = "idle"
         /\ req'[r].op = "password"
         /\ req'[r].body # NoBody
         /\ \E u \in get_user_by_id(users, req'[r].user_id) :
               \/ ~verify_password(req'[r].body.password, u.hashed_password)
               \/ req'[r].body.new_password
                     # req'[r].body.new_password_confirm)
        => /\ req'[r].pc = "done"
           /\ req'[r].raised = "BadRequestError"
           /\ req'[r].status = 400
           /\ req'[r].adds = 0 /\ req'[r].commits = 0
           /\ req'[r].pending = {}
           /\ users' = users

C16_BadPasswordChange == [][C16_Step]_vars

\* One change refused for its current password and one for its
\* confirmation, the stored hash still the one InitialUsers gave.
C16_Witness ==
    \E r, q \in Reqs :
        /\ req[r].op = "password"
        /\ req[r].detail = "Incorrect current password."
        /\ req[q].op = "password"
        /\ req[q].detail = "New passwords do not match."
        /\ \E u \in get_user_by_id(users, req[q].user_id) :
              u.hashed_password = get_password_hash("pw1", 1)

\* C17: when a password change succeeds, the user's stored hash is the
\* hasher's hash of new_password, written by one commit without a
\* rollback, and no other row is touched; authenticate_user on the
\* resulting table returns the user for new_password and no user for the
\* old password when the two differ.
C17_Step ==
    \A r \in Reqs :
        (/\ req[r].op = "password"
         /\ req[r].pc = "commit"
         /\ req'[r].status = 204)
        => /\ req'[r].commits = 1 /\ req'[r].adds = 1
           /\ req'[r].rollbacks = 0
           /\ \A u \in users' : u.id # req[r].user_id => u \in users
           /\ \E u \in get_user_by_id(users', req[r].user_id) :
                 /\ \E x \in req[r].pending :
                       u.hashed_password = x.hashed_password
                 /\ u.hashed_password =
                       get_password_hash(req[r].body.new_password,
                                         u.hashed_password.salt)
                 /\ authenticate_user(users', u.username,
                                      req[r].body.new_password) = {u}
                 /\ req[r].body.password # req[r].body.new_password
                    => authenticate_user(users', u.username,
                                         req[r].body.password) = {}

C17_PasswordChanged == [][C17_Step]_vars

\* A password was changed from pw1 to pw2, and a login with pw2 got a
\* token for that user afterwards.
C17_Witness ==
    \E r, q \in Reqs :
        /\ req[r].op = "password" /\ req[r].status = 204
        /\ req[r].body.password = "pw1"
        /\ req[r].body.new_password = "pw2"
        /\ req[q].op = "login" /\ req[q].status = 200
        /\ req[q].body.password = "pw2"
        /\ req[q].user_id = req[r].user_id

\* C18: when the commit of a password change fails, db.rollback is
\* called exactly once and nothing stays staged, the exception leaves
\* change_user_password and the endpoint answers 500, and the table,
\* the user's hash included, is what it was before the attempt.
C18_Step ==
    \A r \in Reqs :
        (/\ req[r].op = "password"
         /\ req[r].pc = "commit"
         /\ req'[r].commit = "error")
        => /\ req'[r].rollbacks = 1
           /\ req'[r].pending = {}
           /\ req'[r].raised = "Exception"
           /\ req'[r].pc = "done"
           /\ req'[r].status = 500
           /\ users' = users

C18_PasswordCommitFailure == [][C18_Step]_vars

\* A change to pw2 failed at its commit, and GET /users/me read the
\* user with the hash of pw1 it had before.
C18_Witness ==
    \E r, q \in Reqs :
        /\ req[r].op = "password" /\ req[r].commit = "error"
        /\ req[r].body.new_password = "pw2"
        /\ req[q].op = "me" /\ req[q].status = 200
        /\ req[q].user_id = req[r].user_id
        /\ \E u \in req[q].obj :
              u.hashed_password = get_password_hash("pw1", 1)
        /\ \A u \in users : verify_password("pw1", u.hashed_password)

\* C19: on GET /users/me and PUT /users/me/password, a token that passes
\* verify_token and names a user id without a User row is answered 401,
\* never 404.
C19_AbsentUserUnauthorized ==
    \A r \in Reqs :
        (/\ req[r].op \in {"me", "password"}
         /\ req[r].pc = "done"
         /\ req[r].raised = "AuthenticationError"
         /\ req[r].detail = "User not found.")
        => /\ req[r].status = 401
           /\ req[r].status # 404

\* C20: a token login handed out stays valid until its own expiry,
\* whatever happens to the password it was given for: it passes
\* verify_token, and when it is presented to GET /users/me or
\* PUT /users/me/password after that password stopped being the user's,
\* the CurrentUser dependency lets it through and the handler acts for
\* the token's user.
C20_Step ==
    /\ \A g \in issued :
          timegm(now) < g.access_token.exp
          => LET td == verify_token(g.access_token, now)
             IN  td.ok /\ td.user_id = str(g.user_id)
    /\ \A r \in Reqs, g \in issued :
          (/\ req[r].pc = "idle"
           /\ req'[r].op \in {"me", "password"}
           /\ req'[r].bearer = g.access_token
           /\ timegm(now) < g.access_token.exp
           /\ authenticate_user(users, g.username, g.password) = {}
           /\ req'[r].error # "Exception")
          => /\ req'[r].detail # "Could not validate credentials"
             /\ req'[r].user_id = g.user_id
             /\ req'[r].obj # {}
             /\ req'[r].op = "me" => req'[r].status = 200

C20_NoRevocation == [][C20_Step]_vars

\* A token given for pw1 was presented to GET /users/me after the
\* password had been changed, and the user was returned with the new
\* hash.
C20_Witness ==
    \E g \in issued, r \in Reqs :
        /\ authenticate_user(users, g.username, g.password) = {}
        /\ req[r].op = "me" /\ req[r].status = 200
        /\ req[r].bearer = g.access_token
        /\ req[r].user_id = g.user_id
        /\ \E u \in req[r].obj :
              ~verify_password(g.password, u.hashed_password)

\* The rows of a user, and the positions of a sequence.
owned_by(user_id) == {i \in images : i.user_id = user_id}
Range(s) == {s[k] : k \in 1..Len(s)}
newest_first(s) ==
    \A k \in 1..(Len(s) - 1) : s[k].created_at >= s[k + 1].created_at

\* C22: what a listing for user U got from its query is every Image row
\* owned by U, once each and no row of another user, newest first; the
\* entries it returns are for rows owned by U, newest first; and for a
\* user with no image the listing returns the empty sequence with 200.
C22_ListingOwnNewestFirst ==
    \A r \in Reqs :
        (req[r].op = "list"
         /\ (req[r].pc = "urls" \/ (req[r].pc = "done" /\ req[r].status = 200)))
        => /\ Range(req[r].user_images) = owned_by(req[r].user_id)
           /\ Len(req[r].user_images) = Cardinality(owned_by(req[r].user_id))
           /\ newest_first(req[r].user_images)
           /\ \A e \in Range(req[r].image_data_with_urls) :
                 \E i \in owned_by(req[r].user_id) :
                    i.id = e.id /\ i.file_path = e.file_path
           /\ newest_first(req[r].image_data_with_urls)
           /\ (req[r].pc = "done" /\ owned_by(req[r].user_id) = {})
                 => req[r].image_data_with_urls = <<>>

\* A listing returned a user's two images, the newer one first, while
\* another user's image was stored; and a listing for a user without
\* images returned 200 and no entry.
C22_Witness ==
    \E r, q \in Reqs :
        /\ req[r].op = "list" /\ req[r].status = 200
        /\ Len(req[r].image_data_with_urls) = 2
        /\ req[r].image_data_with_urls[1].created_at
              > req[r].image_data_with_urls[2].created_at
        /\ \E i \in images : i.user_id # req[r].user_id
        /\ req[q].op = "list" /\ req[q].status = 200
        /\ req[q].user_id # 0
        /\ owned_by(req[q].user_id) = {}
        /\ req[q].image_data_with_urls = <<>>

\* A listing whose signed-URL tasks have all completed and which has
\* answered.
gathered(r) ==
    /\ req[r].op = "list" /\ req[r].pc = "done"
    /\ req[r].user_images # <<>>
    /\ Len(req[r].url_tasks) = Len(req[r].user_images)
\* The tasks of a listing that returned a URL.
succeeded(rq) == {d \in Range(rq.url_tasks) : d.result.kind = "url"}

\* C23: when the signed-URL generation of some images of a listing fails
\* (NotFound, or any other exception) and that of others succeeds, the
\* listing answers 200 and returns exactly the images whose generation
\* succeeded, each with its URL.
C23_PerImageFailureOmitsOne ==
    \A r \in Reqs :
        (/\ gathered(r)
         /\ succeeded(req[r]) # {}
         /\ succeeded(req[r]) # Range(req[r].url_tasks))
        => /\ req[r].status = 200
           /\ Len(req[r].image_data_with_urls)
                 = Cardinality(succeeded(req[r]))
           /\ \A d \in succeeded(req[r]) :
                 \E e \in Range(req[r].image_data_with_urls) :
                    /\ e.id = req[r].user_images[d.k].id
                    /\ e.image_url = d.result.url

\* One listing lost an image to an exception and another lost one to
\* NotFound; each returned its other image.
C23_Witness ==
    \E r, q \in Reqs :
        /\ gathered(r) /\ gathered(q)
        /\ \E d \in Range(req[r].url_tasks) : d.result.kind = "exception"
        /\ \E d \in Range(req[q].url_tasks) : d.result.kind = "empty"
        /\ Len(req[r].image_data_with_urls) = 1
        /\ Len(req[q].image_data_with_urls) = 1
        /\ req[r].status = 200 /\ req[q].status = 200

\* C24: a listing that met a systemic failure (the storage client or the
\* bucket not configured, the query failing, or signed-URL generation
\* raising for every owned image because the store is unreachable) is
\* answered 500, not with a successful result.
C24_SystemicFailureIsInternal ==
    \A r \in Reqs :
        (/\ req[r].op = "list" /\ req[r].pc = "done"
         /\ req[r].user_id # 0
         /\ \/ gcs # "ok"
            \/ req[r].error = "Exception"
            \/ /\ gathered(r)
               /\ \A d \in Range(req[r].url_tasks) :
                     d.result.kind = "exception")
        => req[r].status = 500

\* C25: a step of a listing leaves the User rows, the Image rows, the
\* objects and every other request as they were; and what a listing
\* returns is made of its own user's rows and its own tasks' URLs, one
\* entry per task that succeeded, whatever other listings did meanwhile.
C25_Step ==
    \A r \in Reqs :
        ((req[r].op = "list" \/ req'[r].op = "list") /\ req'[r] # req[r])
        => /\ users' = users /\ images' = images /\ blobs' = blobs
           /\ \A q \in Reqs \ {r} : req'[q] = req[q]
           /\ (req[r].pc = "urls" /\ req'[r].pc = "done")
                 => /\ Len(req'[r].image_data_with_urls)
                          = Cardinality(succeeded(req[r]))
                    /\ \A e \in Range(req'[r].image_data_with_urls) :
                          /\ \E i \in owned_by(req[r].user_id) : i.id = e.id
                          /\ \E d \in succeeded(req[r]) :
                                d.result.url = e.image_url

C25_ListingReadsOnly == [][C25_Step]_vars

\* Two listings of one user ran side by side, their tasks completing in
\* different orders, and returned the same two entries; the tables hold
\* what they held before.
C25_Witness ==
    \E r, q \in Reqs :
        /\ r # q
        /\ gathered(r) /\ gathered(q)
        /\ req[r].user_id = req[q].user_id
        /\ req[r].url_tasks[1].k # req[q].url_tasks[1].k
        /\ Len(req[r].image_data_with_urls) = 2
        /\ req[r].image_data_with_urls = req[q].image_data_with_urls
        /\ users = StoredUsers
        /\ Cardinality(images) = 3 /\ Cardinality(blobs) = 3

\* C27: whatever the order in which the signed-URL tasks completed, every
\* entry a listing returns carries the id, prompt and created_at of one
\* of the rows it fetched together with the URL made for that row's
\* file_path, and the entries follow the order of the fetched rows.
C27_EntriesPairedInOrder ==
    \A r \in Reqs :
        (gathered(r) /\ req[r].status = 200)
        => LET rows == req[r].user_images
               out == req[r].image_data_with_urls
               pos(e) == CHOOSE k \in 1..Len(rows) : rows[k].id = e.id
           IN  /\ \A e \in Range(out) :
                     \E k \in 1..Len(rows) :
                        /\ rows[k].id = e.id
                        /\ rows[k].prompt = e.prompt
                        /\ rows[k].created_at = e.created_at
                        /\ rows[k].file_path = e.file_path
                        /\ e.image_url.path = rows[k].file_path
                        /\ \E d \in succeeded(req[r]) :
                              d.k = k /\ d.result.url = e.image_url
               /\ \A i, j \in 1..Len(out) :
                     i < j => pos(out[i]) < pos(out[j])

\* The task of the second row completed before the task of the first,
\* and both entries were returned, the newer row first.
C27_Witness ==
    \E r \in Reqs :
        /\ gathered(r) /\ req[r].status = 200
        /\ req[r].url_tasks[1].k = 2
        /\ Len(req[r].image_data_with_urls) = 2
        /\ req[r].image_data_with_urls[1].id = req[r].user_images[1].id
        /\ req[r].image_data_with_urls[1].created_at
              > req[r].image_data_with_urls[2].created_at

\* The endpoints behind the CurrentUser dependency.
AuthenticatedOps == {"me", "password", "save", "list"}

\* C21: on GET /users/me, PUT /users/me/password, POST /image/save and
\* GET /image/me, a request whose token fails verify_token is answered by
\* the dependency and its handler body never runs: no user is looked up,
\* no password change staged, no object uploaded, no Image row inserted
\* and no listing made for it; and a request that is past its first step
\* came with a token that is a JWT signed under SECRET_KEY and carrying a
\* user id.
C21_Step ==
    \A r \in Reqs :
        /\ (/\ req[r].pc = "idle"
            /\ req'[r].op \in AuthenticatedOps
            /\ ~verify_token(req'[r].bearer, now).ok)
           => /\ req'[r].pc = "done"
              /\ req'[r].status = 401
              /\ req'[r].detail = credentials_exception.detail
              /\ req'[r].user_id = 0
              /\ req'[r].obj = {} /\ req'[r].pending = {}
              /\ req'[r].decode = "pending"
              /\ req'[r].blob_name = NoBlobName
              /\ req'[r].user_images = <<>>
              /\ users' = users /\ images' = images /\ blobs' = blobs
        /\ (req[r].op \in AuthenticatedOps /\ req[r].pc \notin {"idle", "done"})
           => /\ req[r].bearer.jwt
              /\ req[r].bearer.key = SECRET_KEY
              /\ req[r].bearer.user_id # NoClaim
              /\ req[r].user_id # 0

C21_VerifyBeforeHandler == [][C21_Step]_vars

\* After a save had stored an image, a listing came with a token signed
\* under another key and was refused: nothing was fetched for it.
C21_Witness ==
    \E r \in Reqs :
        /\ images # {} /\ blobs # {}
        /\ req[r].op = "list" /\ req[r].status = 401
        /\ req[r].bearer.jwt /\ req[r].bearer.key # SECRET_KEY
        /\ req[r].user_images = <<>>

\* The detail messages of the 500 responses of each endpoint.
InternalDetails(op) ==
    CASE op = "generate" -> {"An error occurred during image generation."}
      [] op = "save" ->
           {"Server configuration error: Image storage is not set up correctly.",
            "Server configuration error: Image storage project ID missing.",
            "Error interacting with cloud storage.",
            "An unexpected error occurred while saving the image.",
            "Internal Server Error"}
      [] op = "list" ->
           {"Server configuration error: Image storage is not set up correctly.",
            "Server configuration error: Image storage project ID missing.",
            "An unexpected error occurred while retrieving user images.",
            "Internal Server Error"}
      [] op = "register" ->
           {"An unexpected error occurred during registration."}
      [] op = "password" ->
           {"An unexpected error occurred while changing the password."}
      [] OTHER -> {"Internal Server Error"}

\* C26: every 500 response of the image generate, save and list
\* endpoints, of registration and of the password change carries one of
\* the fixed messages of its endpoint, with nothing formatted into it:
\* the text of the provider's exception is not part of the response.
C26_InternalIsGeneric ==
    \A r \in Reqs :
        (req[r].pc = "done" /\ req[r].status = 500)
        => /\ req[r].detail \in InternalDetails(req[r].op)
           /\ req[r].detail_args = <<>>
           /\ req[r].detail \notin ProviderTexts

\* The provider raised with a text and the generate endpoint answered 500
\* with its one message.
C26_Witness ==
    \E r \in Reqs :
        /\ req[r].op = "generate" /\ req[r].status = 500
        /\ req[r].cause \in ProviderTexts
        /\ req[r].detail = "An error occurred during image generation."
        /\ req[r].detail_args = <<>>

\* C28: no two requests in flight hold the same session, and a session
\* given to a request is eventually closed, whether the request returned,
\* raised an HTTPException or raised an exception nothing handles.
C28_SessionScoped ==
    /\ [](\A r, q \in Reqs :
             (r # q /\ req[r].db # 0) => req[r].db # req[q].db)
    /\ \A r \in Reqs : (req[r].db # 0) ~> (req[r].db = 0)

\* Two listings hold a session each: one has ended with an exception
\* nothing handled (a user id that is no UUID), the other is awaiting
\* its signed URL.
C28_Witness ==
    \E r, q \in Reqs :
        /\ req[r].db # 0 /\ req[q].db # 0
        /\ req[r].db # req[q].db
        /\ req[r].op = "list"
        /\ req[r].pc = "done" /\ req[r].raised = "ValueError"
        /\ req[q].op = "list" /\ req[q].pc = "urls"

\* C29: in every step, each User row keeps its id, username and email
\* and stays in the table; its hashed_password changes only in the
\* successful commit of a password change whose token, signed under
\* SECRET_KEY, names that row's id; and every Image row stays as it is.
C29_Step ==
    /\ \A u \in users :
          \E v \in users' :
             /\ v.id = u.id
             /\ v.username = u.username
             /\ v.email = u.email
             /\ v.hashed_password # u.hashed_password
                => \E r \in Reqs :
                      /\ req[r].op = "password"
                      /\ req[r].pc = "commit"
                      /\ req'[r].status = 204
                      /\ req[r].user_id = u.id
                      /\ req[r].bearer.key = SECRET_KEY
                      /\ req[r].bearer.user_id = str(u.id)
    /\ Cardinality(users') >= Cardinality(users)
    /\ images \subseteq images'

C29_RowsKept == [][C29_Step]_vars

\* After a registration added a second user, the first user's password
\* was changed: the new row is as it was registered and the first row
\* differs from InitialUsers' in its hash alone.
C29_Witness ==
    \E r \in Reqs, u, v \in users :
        /\ u.id # v.id
        /\ req[r].op = "password" /\ req[r].status = 204
        /\ req[r].user_id = u.id
        /\ u.username = "alice" /\ u.email = "a@x.io"
        /\ u.hashed_password # get_password_hash("pw1", 1)
        /\ verify_password("pw2", u.hashed_password)
        /\ v.username = "bob"

\* C30: the commit of a password change succeeds only when the
\* current_password of its request verifies against the hash stored at
\* that moment; two changes of one user that both present the original
\* password cannot both commit.
C30_Step ==
    \A r \in Reqs :
        (/\ req[r].op = "password"
         /\ req[r].pc = "commit"
         /\ req'[r].status = 204)
        => \E u \in get_user_by_id(users, req[r].user_id) :
              verify_password(req[r].body.password, u.hashed_password)

C30_CommitChecksStoredHash == [][C30_Step]_vars

====
